---- MODULE Spec2Model ----
(***************************************************************************)
(* Model of internal/controllers/runner_controller.go: the Runner          *)
(* reconciler (Reconcile, cleanupOwnedResources, createTokenSecret and the *)
(* desired-state builders), the resource store it talks to, the identity   *)
(* service, and the work queue that re-invokes it.                         *)
(*                                                                         *)
(* One reconcile pass is a sequence of steps, one per store call or token  *)
(* exchange; external writers may act between any two steps.               *)
(***************************************************************************)
EXTENDS Integers, Sequences, FiniteSets, TLC

(***************************************************************************)
(* Bounds of the model.                                                    *)
(***************************************************************************)
\* number of writes by actors other than the reconciler in one behaviour
MaxExt == 2
\* the clock stops advancing past this instant (seconds)
MaxTime == 300
\* longest version string handed to the Reference Normalizer
MaxVersionLen == 2

(***************************************************************************)
(* Program constants (durations are in seconds).                           *)
(***************************************************************************)
Second == 1
Minute == 60

ownerKey == ".metadata.controller"
expiresAtAnnotation == "github-actions-runner.kaidotio.github.io/expiresAt"

(***************************************************************************)
(* Strings whose characters matter (image references, versions, the        *)
(* repository field) are sequences of one-character strings.               *)
(***************************************************************************)
RECURSIVE IndexOf(_, _, _)
IndexOf(s, c, i) ==
    IF i > Len(s) THEN 0
    ELSE IF s[i] = c THEN i
    ELSE IndexOf(s, c, i + 1)

Contains(s, c) == IndexOf(s, c, 1) # 0

\* strings.SplitN(s, sep, 2): at most two pieces, cut at the first separator
SplitN2(s, sep) ==
    LET i == IndexOf(s, sep, 1)
    IN  IF i = 0 THEN <<s>>
        ELSE <<SubSeq(s, 1, i - 1), SubSeq(s, i + 1, Len(s))>>

(***************************************************************************)
(* Object references and names.                                            *)
(***************************************************************************)
NoOwner == [kind |-> "", name |-> ""]
RunnerOwner(name) == [kind |-> "Runner", name |-> name]

NoRef == [name |-> "", key |-> ""]

SecretName(name) == name
WorkspaceName(name) == name \o "-workspace"
DeploymentName(name) == name \o "-runner"

\* metaV1.GetControllerOf + the index function registered in SetupWithManager
OwnerIndex(obj) ==
    IF obj.owner = NoOwner THEN {}
    ELSE IF obj.owner.kind # "Runner" THEN {}
    ELSE {obj.owner.name}

\* List(..., MatchingFields{ownerKey: name}): the names the index attributes
OwnedNames(objs, name) == {n \in DOMAIN objs : name \in OwnerIndex(objs[n])}

(***************************************************************************)
(* The store: a collection of one kind is a function from the names that   *)
(* exist to the stored objects.                                            *)
(***************************************************************************)
Put(objs, n, obj) == [m \in DOMAIN objs \cup {n} |-> IF m = n THEN obj ELSE objs[m]]
Remove(objs, n) == [m \in DOMAIN objs \ {n} |-> objs[m]]
Empty == [m \in {} |-> NoOwner]

\* What the store keeps of a Secret written to it: stringData is write-only,
\* merged into data on write and never returned on read.
StoredSecret(s) ==
    [owner |-> s.owner,
     data |-> IF s.stringData # "" THEN s.stringData ELSE s.data,
     stringData |-> "",
     annotations |-> s.annotations]

(***************************************************************************)
(* Time stamps: an RFC3339 text is <<"T", instant>>; anything else does    *)
(* not parse.                                                              *)
(***************************************************************************)
FormatRFC3339(t) == <<"T", t>>
Unparsable == <<"garbage">>

\* time.Parse(time.RFC3339, s)
ParseRFC3339(s) ==
    IF Len(s) = 2 /\ s[1] = "T"
    THEN [err |-> FALSE, t |-> s[2]]
    ELSE [err |-> TRUE, t |-> 0]

(***************************************************************************)
(* Controller-wide configuration that no behaviour of the model varies.    *)
(***************************************************************************)
PushRegistryHost == "push.registry"
PullRegistryHost == "pull.registry"
KanikoImage == "kaniko"
ExporterImage == "exporter"

(***************************************************************************)
(* Reference Normalizer.                                                   *)
(***************************************************************************)
\* dockerref.ParseNormalizedNamed: rejects an empty reference and one with
\* an upper-case repository; a bare name is put under docker.io/library/;
\* what follows the first ":" is the tag.
ParseNormalizedNamed(image) ==
    LET parts == SplitN2(image, ":")
        path == parts[1]
    IN  IF path = <<>> \/ Contains(path, "U")
        THEN [err |-> TRUE, name |-> <<>>, tag |-> <<>>]
        ELSE [err |-> FALSE,
              name |-> IF Contains(path, "/") THEN path
                       ELSE <<"docker.io/library/">> \o path,
              tag |-> IF Len(parts) = 2 THEN parts[2] ELSE <<>>]

\* dockerref.TrimNamed(named).String(): the name without tag or digest
TrimNamed(named) == named.name

\* fmt.Sprintf("%x", sha256.Sum256(b))[:7], the hash taken as injective
Sha256Hex7(b) == <<"sha256", b>>

buildRepositoryName(c, runner) ==
    LET named == ParseNormalizedNamed(runner.image)
    IN  IF named.err
        THEN Sha256Hex7(runner.image \o c.binaryVersion \o c.runnerVersion)
        ELSE Sha256Hex7(TrimNamed(named) \o c.binaryVersion \o c.runnerVersion)

(***************************************************************************)
(* Desired-State Builder.  A builder that changes the Runner it is given   *)
(* comes as a pair: the object built, and the Runner as it leaves it.      *)
(***************************************************************************)
DefaultBuilderMemory == "4Gi"

\* the Runner after buildBuilderContainer: an unset memory limit is filled in
RunnerAfterBuilderContainer(runner) ==
    [runner EXCEPT !.limitsMemory =
        IF runner.limitsMemory = "" THEN DefaultBuilderMemory ELSE @]

buildBuilderContainer(c, runner) ==
    [name |-> "kaniko",
     image |-> KanikoImage,
     destination |-> <<PushRegistryHost, buildRepositoryName(c, runner)>>,
     limitsMemory |-> RunnerAfterBuilderContainer(runner).limitsMemory]

buildRunnerContainer(c, runner) ==
    LET args0 == <<"--without-install", "--repository=$(REPOSITORY)",
                   "--hostname=$(HOSTNAME)">>
        args1 == IF runner.tokenSecretKeyRef # NoRef
                 THEN Append(args0, "--token=$(TOKEN)") ELSE args0
        args2 == IF runner.appSecretRef # ""
                 THEN args1 \o <<"--github-app-id=$(github_app_id)",
                                 "--github-app-installation-id=$(github_app_installation_id)",
                                 "--github-app-private-key=$(github_app_private_key)">>
                 ELSE args1
    IN  [name |-> "runner",
         image |-> <<PullRegistryHost, buildRepositoryName(c, runner)>>,
         args |-> IF c.disableUpdate
                  THEN Append(args2, "--disableupdate") ELSE args2,
         repository |-> runner.repository,
         token |-> runner.tokenSecretKeyRef,
         envFrom |-> runner.appSecretRef,
         runAsUser |-> 60000]

buildExporterContainer(c, runner) ==
    [name |-> "exporter",
     image |-> ExporterImage,
     repository |-> runner.repository,
     token |-> runner.tokenSecretKeyRef,
     port |-> 9090]

\* map merge of buildDeployment: the Runner's own entries overwrite the
\* controller's defaults
MergeOver(defaults, own) ==
    [k \in DOMAIN defaults \cup DOMAIN own |->
        IF k \in DOMAIN own THEN own[k] ELSE defaults[k]]

\* the Runner after buildDeployment: merged labels and annotations are
\* written back, and so is the builder container's memory default
RunnerAfterDeployment(runner) ==
    [RunnerAfterBuilderContainer(runner) EXCEPT
        !.labels = MergeOver([app |-> DeploymentName(runner.name)], runner.labels),
        !.annotations = MergeOver([image |-> runner.image], runner.annotations)]

PodTemplate(c, runner) ==
    [labels |-> RunnerAfterDeployment(runner).labels,
     annotations |-> RunnerAfterDeployment(runner).annotations,
     affinityApp |-> DeploymentName(runner.name),
     initContainers |-> <<buildBuilderContainer(c, runner)>>,
     containers |-> IF c.enableRunnerMetrics
                    THEN <<buildRunnerContainer(c, runner),
                           buildExporterContainer(c, runner)>>
                    ELSE <<buildRunnerContainer(c, runner)>>,
     workspaceVolume |-> WorkspaceName(runner.name)]

DesiredReplicas == 1
DesiredStrategy == [type |-> "RollingUpdate", maxSurge |-> "25%", maxUnavailable |-> 1]

buildDeployment(c, runner) ==
    [owner |-> NoOwner,
     selector |-> DeploymentName(runner.name),
     replicas |-> DesiredReplicas,
     strategy |-> DesiredStrategy,
     template |-> PodTemplate(c, runner)]

\* the Dockerfile text: the template with its four %s filled in
Dockerfile(c, runner) ==
    <<"FROM", runner.image, "ADD", c.binaryVersion, c.binaryVersion,
      "--runner-version", c.runnerVersion>>

buildWorkspaceConfigMap(c, runner) ==
    [owner |-> NoOwner,
     data |-> Dockerfile(c, runner),
     binaryData |-> ""]

\* SetControllerReference leaving the object without owner
SetControllerReferenceNone(runner, obj) == obj

\* controllerutil.SetControllerReference(runner, obj, scheme)
SetControllerReference(runner, obj) == [obj EXCEPT !.owner = RunnerOwner(runner.name)]

(***************************************************************************)
(* External Token Exchange Client.                                         *)
(***************************************************************************)
\* token values the identity service hands out
Tokens == {"ghs_1", "ghs_2"}
\* lifetimes (seconds) of the tokens it issues
Lifetimes == {30, 300, 3600}

\* signJwt: fails when the key is not a PEM block
signJwt(privateKey, clientId) ==
    IF privateKey = "notpem" THEN [err |-> "jwt", token |-> ""]
    ELSE [err |-> "", token |-> clientId]

\* what the identity service may answer: a transport failure, a status other
\* than 201, a body that does not decode, or 201 with {token, expires_at}
TokenResponses(t) ==
    {[err |-> "request", status |-> "", token |-> "", expiresAt |-> <<>>],
     [err |-> "", status |-> "403", token |-> "", expiresAt |-> <<>>],
     [err |-> "decode", status |-> "201", token |-> "", expiresAt |-> <<>>]}
    \cup {[err |-> "", status |-> "201", token |-> tok, expiresAt |-> e] :
            tok \in Tokens,
            e \in {FormatRFC3339(t + l) : l \in Lifetimes} \cup {Unparsable}}

\* createTokenSecret on one answer of the identity service:
\* [panic, err, status, secret]
createTokenSecret(c, runner, resp) ==
    LET jwt == signJwt(c.privateKey, c.clientId)
        parts == SplitN2(runner.repository, "/")
        none == [owner |-> NoOwner, data |-> "", stringData |-> "", annotations |-> <<>>]
    IN  IF jwt.err # ""
        THEN [panic |-> FALSE, err |-> "jwt", status |-> "", secret |-> none]
        ELSE IF Len(parts) < 2
        THEN [panic |-> TRUE, err |-> "", status |-> "", secret |-> none]
        ELSE IF resp.err = "request"
        THEN [panic |-> FALSE, err |-> "request", status |-> "", secret |-> none]
        ELSE IF resp.status # "201"
        THEN [panic |-> FALSE, err |-> "status", status |-> resp.status, secret |-> none]
        ELSE IF resp.err = "decode"
        THEN [panic |-> FALSE, err |-> "decode", status |-> resp.status, secret |-> none]
        ELSE [panic |-> FALSE, err |-> "", status |-> resp.status,
              secret |-> [owner |-> NoOwner,
                          data |-> "",
                          stringData |-> resp.token,
                          annotations |-> resp.expiresAt]]

(***************************************************************************)
(* Diff & Apply Engine: the comparisons of Reconcile.                      *)
(***************************************************************************)
TokenSecretDiffers(observed, expected) ==
    observed.data # expected.data \/ observed.stringData # expected.stringData

WorkspaceDiffers(observed, expected) ==
    observed.data # expected.data \/ observed.binaryData # expected.binaryData

\* DeploymentDiffers comparing the whole object
DeploymentDiffersWhole(observed, expected) == observed # expected

DeploymentDiffers(observed, expected) ==
    observed.template # expected.template

\* DynamicIssuance with the installation id left unchecked
DynamicIssuanceNoInstallation(c, runner) ==
    /\ runner.tokenSecretKeyRef = NoRef
    /\ c.clientId # ""
    /\ c.privateKey # ""

\* the condition under which Reconcile manages the credential itself
DynamicIssuance(c, runner) ==
    /\ runner.tokenSecretKeyRef = NoRef
    /\ c.clientId # ""
    /\ c.installationId # ""
    /\ c.privateKey # ""

\* the reference Reconcile writes into the in-memory Runner
IssuedRef(name) == [name |-> name, key |-> "GITHUB_TOKEN"]

\* RenewalDelay without the minute of margin
RenewalDelayNoMargin(expire, t) == expire - t

\* requeueAfter = expire.Sub(time.Now()) - time.Minute
RenewalDelay(expire, t) == expire - t - Minute

(***************************************************************************)
(* State.                                                                  *)
(***************************************************************************)
VARIABLES
    \* the store
    runners, secrets, configMaps, deployments,
    \* the reconciler's configuration (fields of RunnerReconciler)
    cfg,
    \* the pass in progress: position and locals of Reconcile
    pc, runner, items, tokenSecret, workspaceConfigMap, deployment,
    requeueAfter, result,
    \* the store calls, token exchanges and events of the current pass
    trace,
    \* kinds whose observed object was written by someone else since it was read
    dirty,
    \* the work queue: an item ready, a delayed item, the clock
    queued, timer, now,
    \* the other Runner's key: idle, or the position of its pass
    other,
    \* writes by other actors so far
    extUsed,
    \* the last pass returned no error and nobody wrote since
    prevOk,
    \* prevOk as it was when the current pass began
    quiet,
    \* nobody else wrote to the store since the current pass began
    calm,
    \* the runs of the Reference Normalizer: inputs and identifier of each
    normalized

storeVars == <<runners, secrets, configMaps, deployments>>
\* what no step of a pass, of the queue or of another actor changes
fixedVars == <<cfg, normalized>>
localVars == <<runner, items, tokenSecret, workspaceConfigMap, deployment, requeueAfter>>
queueVars == <<queued, timer, now, other>>
vars == <<runners, secrets, configMaps, deployments, cfg, pc, runner, items,
          tokenSecret, workspaceConfigMap, deployment, requeueAfter, result,
          trace, dirty, queued, timer, now, other, extUsed, prevOk, quiet,
          calm, normalized>>

\* the Runner every request of the model names
Req == "r"
\* another Runner of the same namespace
Other == "q"

NoTimer == -1

Image1 == <<"u", ":", "1">>
Image2 == <<"a", "/", "b">>

RunnerSpec(repository, ref) ==
    [name |-> Req,
     image |-> Image1,
     repository |-> repository,
     tokenSecretKeyRef |-> ref,
     appSecretRef |-> "",
     limitsMemory |-> "",
     labels |-> [team |-> "x"],
     annotations |-> [note |-> "n"]]

StaticRef == [name |-> "static", key |-> "token"]

\* the Runner declarations a behaviour may start from
RunnerSpecs ==
    {RunnerSpec(<<"o", "/", "r">>, NoRef),
     RunnerSpec(<<"o">>, NoRef),
     RunnerSpec(<<"o", "/", "r">>, StaticRef)}

Config(clientId, installationId, privateKey) ==
    [clientId |-> clientId,
     installationId |-> installationId,
     privateKey |-> privateKey,
     binaryVersion |-> <<"1">>,
     runnerVersion |-> <<"2">>,
     enableRunnerMetrics |-> FALSE,
     disableUpdate |-> FALSE]

\* the configurations a behaviour may run under: complete, complete with a
\* key that is no PEM block, and each of the three values missing
Configs ==
    {Config("Iv1", "42", "pem"),
     Config("Iv1", "42", "notpem"),
     Config("", "42", "pem"),
     Config("Iv1", "", "pem"),
     Config("Iv1", "42", "")}

NoSecret == [owner |-> NoOwner, data |-> "", stringData |-> "", annotations |-> <<>>]
NoConfigMap == [owner |-> NoOwner, data |-> <<>>, binaryData |-> ""]
NoDeployment ==
    [owner |-> NoOwner, selector |-> "", replicas |-> 0,
     strategy |-> [type |-> "", maxSurge |-> "", maxUnavailable |-> 0],
     template |-> [none |-> TRUE]]
NoRunner ==
    [name |-> "", image |-> <<>>, repository |-> <<>>, tokenSecretKeyRef |-> NoRef,
     appSecretRef |-> "", limitsMemory |-> "", labels |-> <<>>, annotations |-> <<>>]
NoResult == [err |-> "", requeueAfter |-> 0]

\* children of other owners that are in the store from the start
BystanderConfigMaps ==
    ("q-workspace" :> [owner |-> RunnerOwner(Other), data |-> <<"FROM", "q">>, binaryData |-> ""])
BystanderDeployments ==
    ("r-job" :> [NoDeployment EXCEPT !.owner = [kind |-> "Job", name |-> Req]])

Init ==
    /\ cfg \in Configs
    /\ \E spec \in RunnerSpecs : runners = (Req :> spec)
    /\ secrets = Empty
    /\ configMaps = BystanderConfigMaps
    /\ deployments = BystanderDeployments
    /\ pc = "idle"
    /\ runner = NoRunner
    /\ items = <<>>
    /\ tokenSecret = NoSecret
    /\ workspaceConfigMap = NoConfigMap
    /\ deployment = NoDeployment
    /\ requeueAfter = 0
    /\ result = NoResult
    /\ trace = <<>>
    /\ dirty = {}
    /\ queued = TRUE
    /\ timer = NoTimer
    /\ now = 0
    /\ other = "idle"
    /\ extUsed = 0
    /\ prevOk = FALSE
    /\ quiet = FALSE
    /\ calm = FALSE
    /\ normalized = <<>>

(***************************************************************************)
(* Bookkeeping shared by the steps of a pass.                              *)
(***************************************************************************)
Call(op, kind, name, res) == [op |-> op, kind |-> kind, name |-> name, res |-> res]

\* Event naming the Runner instead of the child
EventNamingRunner(reason, kind, name) ==
    [op |-> "Event", kind |-> kind, name |-> Req, res |-> reason]

\* r.Recorder.Eventf(runner, EventTypeNormal, reason, "...: %q", name)
Event(reason, kind, name) == [op |-> "Event", kind |-> kind, name |-> name, res |-> reason]

\* Return with the error dropped
ReturnDroppingError(e, d) ==
    /\ pc' = "done"
    /\ result' = [err |-> "", requeueAfter |-> d]
    /\ prevOk' = calm

\* a return of Reconcile: ctrl.Result{RequeueAfter: d}, err
Return(e, d) ==
    /\ pc' = "done"
    /\ result' = [err |-> e, requeueAfter |-> d]
    /\ prevOk' = (e = "" /\ calm)

\* a step that does not return
Goto(next) ==
    /\ pc' = next
    /\ UNCHANGED <<result, prevOk>>

RECURSIVE SetToSeq(_)
SetToSeq(S) ==
    IF S = {} THEN <<>>
    ELSE LET x == CHOOSE y \in S : TRUE
         IN  <<x>> \o SetToSeq(S \ {x})

(***************************************************************************)
(* Reconcile, step by step.                                                *)
(***************************************************************************)
TimerDue == timer # NoTimer /\ timer <= now

\* Options with a second worker
OptionsTwoWorkers == [MaxConcurrentReconciles |-> 2]

\* controller.Options{MaxConcurrentReconciles: 1}
Options == [MaxConcurrentReconciles |-> 1]

\* the workers that are in a pass
Busy ==
    (IF pc # "idle" THEN 1 ELSE 0) + (IF other = "GetRunner" THEN 1 ELSE 0)

\* the work queue hands the Runner's key to the single worker
Start ==
    /\ pc = "idle"
    /\ queued \/ TimerDue
    /\ Busy < Options.MaxConcurrentReconciles
    /\ pc' = "GetRunner"
    /\ queued' = FALSE
    /\ timer' = IF TimerDue THEN NoTimer ELSE timer
    /\ quiet' = prevOk
    /\ calm' = TRUE
    /\ UNCHANGED <<storeVars, fixedVars, localVars, result, trace, dirty, now, other,
                   extUsed, prevOk>>

\* NotFoundResult surfacing the error
NotFoundResultAsError == [err |-> "notfound", requeueAfter |-> 0]

\* what Reconcile returns when the Runner is not in the store
NotFoundResult == [err |-> "", requeueAfter |-> 0]

\* FirstStep with the garbage collector left out
FirstStepSkippingCleanup == "GetWorkspaceConfigMap"

\* what Reconcile does first with the Runner it fetched: cleanupOwnedResources
FirstStep == "ListConfigMaps"

\* r.Get(ctx, req.NamespacedName, runner)
GetRunner ==
    /\ pc = "GetRunner"
    /\ \/ /\ Req \notin DOMAIN runners
          /\ trace' = Append(trace, Call("Get", "Runner", Req, "notfound"))
          /\ Return(NotFoundResult.err, NotFoundResult.requeueAfter)
          /\ UNCHANGED runner
       \/ /\ trace' = Append(trace, Call("Get", "Runner", Req, "err"))
          /\ Return("store", 0)
          /\ UNCHANGED runner
       \/ /\ Req \in DOMAIN runners
          /\ trace' = Append(trace, Call("Get", "Runner", Req, "ok"))
          /\ runner' = runners[Req]
          /\ Goto(FirstStep)
    /\ UNCHANGED <<storeVars, fixedVars, items, tokenSecret, workspaceConfigMap,
                   deployment, requeueAfter, dirty, queueVars, extUsed, quiet, calm>>

\* cleanupOwnedResources: r.List of the ConfigMaps the index gives the Runner
ListConfigMaps ==
    /\ pc = "ListConfigMaps"
    /\ \/ /\ trace' = Append(trace, Call("List", "ConfigMap", runner.name, "err"))
          /\ Return("store", 0)
          /\ UNCHANGED items
       \/ /\ trace' = Append(trace, Call("List", "ConfigMap", runner.name, "ok"))
          /\ items' = SetToSeq(OwnedNames(configMaps, runner.name))
          /\ Goto("DeleteConfigMaps")
    /\ UNCHANGED <<storeVars, fixedVars, runner, tokenSecret, workspaceConfigMap,
                   deployment, requeueAfter, dirty, queueVars, extUsed, quiet, calm>>

\* KeepsConfigMap comparing with the Runner's own name
KeepsConfigMapBareName(r, n) == n = r.name

\* the names cleanupOwnedResources keeps: one per kind
KeepsConfigMap(r, n) == n = WorkspaceName(r.name)
KeepsDeployment(r, n) == n = DeploymentName(r.name)

\* cleanupOwnedResources: one turn of the loop over configMaps.Items
DeleteConfigMaps ==
    /\ pc = "DeleteConfigMaps"
    /\ \/ /\ items = <<>>
          /\ Goto("ListDeployments")
          /\ UNCHANGED <<configMaps, items, trace>>
       \/ /\ items # <<>>
          /\ KeepsConfigMap(runner, Head(items))
          /\ items' = Tail(items)
          /\ Goto("DeleteConfigMaps")
          /\ UNCHANGED <<configMaps, trace>>
       \/ /\ items # <<>>
          /\ ~KeepsConfigMap(runner, Head(items))
          /\ \/ /\ Head(items) \in DOMAIN configMaps
                /\ configMaps' = Remove(configMaps, Head(items))
                /\ trace' = trace \o <<Call("Delete", "ConfigMap", Head(items), "ok"),
                                       Event("SuccessfulDeleted", "ConfigMap", Head(items))>>
                /\ items' = Tail(items)
                /\ Goto("DeleteConfigMaps")
             \/ /\ Head(items) \notin DOMAIN configMaps
                /\ trace' = Append(trace, Call("Delete", "ConfigMap", Head(items), "notfound"))
                /\ Return("notfound", 0)
                /\ UNCHANGED <<configMaps, items>>
             \/ /\ trace' = Append(trace, Call("Delete", "ConfigMap", Head(items), "err"))
                /\ Return("store", 0)
                /\ UNCHANGED <<configMaps, items>>
    /\ UNCHANGED <<runners, secrets, deployments, fixedVars, runner, tokenSecret,
                   workspaceConfigMap, deployment, requeueAfter, dirty, queueVars,
                   extUsed, quiet, calm>>

\* cleanupOwnedResources: r.List of the Deployments the index gives the Runner
ListDeployments ==
    /\ pc = "ListDeployments"
    /\ \/ /\ trace' = Append(trace, Call("List", "Deployment", runner.name, "err"))
          /\ Return("store", 0)
          /\ UNCHANGED items
       \/ /\ trace' = Append(trace, Call("List", "Deployment", runner.name, "ok"))
          /\ items' = SetToSeq(OwnedNames(deployments, runner.name))
          /\ Goto("DeleteDeployments")
    /\ UNCHANGED <<storeVars, fixedVars, runner, tokenSecret, workspaceConfigMap,
                   deployment, requeueAfter, dirty, queueVars, extUsed, quiet, calm>>

\* cleanupOwnedResources: one turn of the loop over deployments.Items; after
\* the last one Reconcile goes on to the credential or past it
DeleteDeployments ==
    /\ pc = "DeleteDeployments"
    /\ \/ /\ items = <<>>
          /\ Goto(IF DynamicIssuance(cfg, runner)
                  THEN "GetTokenSecret" ELSE "GetWorkspaceConfigMap")
          /\ UNCHANGED <<deployments, items, trace>>
       \/ /\ items # <<>>
          /\ KeepsDeployment(runner, Head(items))
          /\ items' = Tail(items)
          /\ Goto("DeleteDeployments")
          /\ UNCHANGED <<deployments, trace>>
       \/ /\ items # <<>>
          /\ ~KeepsDeployment(runner, Head(items))
          /\ \/ /\ Head(items) \in DOMAIN deployments
                /\ deployments' = Remove(deployments, Head(items))
                /\ trace' = trace \o <<Call("Delete", "Deployment", Head(items), "ok"),
                                       Event("SuccessfulDeleted", "Deployment", Head(items))>>
                /\ items' = Tail(items)
                /\ Goto("DeleteDeployments")
             \/ /\ Head(items) \notin DOMAIN deployments
                /\ trace' = Append(trace, Call("Delete", "Deployment", Head(items), "notfound"))
                /\ Return("notfound", 0)
                /\ UNCHANGED <<deployments, items>>
             \/ /\ trace' = Append(trace, Call("Delete", "Deployment", Head(items), "err"))
                /\ Return("store", 0)
                /\ UNCHANGED <<deployments, items>>
    /\ UNCHANGED <<runners, secrets, configMaps, fixedVars, runner, tokenSecret,
                   workspaceConfigMap, deployment, requeueAfter, dirty, queueVars,
                   extUsed, quiet, calm>>

\* r.Client.Get of the Secret named after the Runner
GetTokenSecret ==
    /\ pc = "GetTokenSecret"
    /\ \/ /\ SecretName(Req) \notin DOMAIN secrets
          /\ trace' = Append(trace, Call("Get", "Secret", SecretName(Req), "notfound"))
          /\ Goto("IssueForCreate")
          /\ UNCHANGED <<tokenSecret, dirty>>
       \/ /\ trace' = Append(trace, Call("Get", "Secret", SecretName(Req), "err"))
          /\ Return("store", 0)
          /\ UNCHANGED <<tokenSecret, dirty>>
       \/ /\ SecretName(Req) \in DOMAIN secrets
          /\ trace' = Append(trace, Call("Get", "Secret", SecretName(Req), "ok"))
          /\ tokenSecret' = secrets[SecretName(Req)]
          /\ dirty' = dirty \ {"Secret"}
          /\ Goto("IssueForUpdate")
    /\ UNCHANGED <<storeVars, fixedVars, runner, items, workspaceConfigMap, deployment,
                   requeueAfter, queueVars, extUsed, quiet, calm>>

\* the trace entry of one run of createTokenSecret
TokenCall(out) ==
    Call("Token", "Secret", SecretName(Req),
         IF out.panic THEN "panic"
         ELSE IF out.err = "jwt" THEN "jwt"
         ELSE IF out.err = "request" THEN "request"
         ELSE out.status)

\* a panic leaves Reconcile without a result
Panic ==
    /\ pc' = "panic"
    /\ prevOk' = FALSE
    /\ UNCHANGED result

\* the absent branch: createTokenSecret, then SetControllerReference
IssueForCreate ==
    /\ pc = "IssueForCreate"
    /\ \E resp \in TokenResponses(now) :
         LET out == createTokenSecret(cfg, runner, resp)
         IN  /\ trace' = Append(trace, TokenCall(out))
             /\ IF out.panic
                THEN Panic /\ UNCHANGED tokenSecret
                ELSE IF out.err # ""
                THEN Return(out.err, 0) /\ UNCHANGED tokenSecret
                ELSE /\ tokenSecret' = SetControllerReference(runner, out.secret)
                     /\ Goto("CreateTokenSecret")
    /\ UNCHANGED <<storeVars, fixedVars, runner, items, workspaceConfigMap, deployment,
                   requeueAfter, dirty, queueVars, extUsed, quiet, calm>>

\* the same with the parse error dropped: the pass goes on with no delay set
AfterTokenSecretWriteSkippingParseError ==
    LET expire == ParseRFC3339(tokenSecret.annotations)
    IN  /\ requeueAfter' = IF expire.err THEN requeueAfter
                           ELSE RenewalDelay(expire.t, now)
        /\ runner' = [runner EXCEPT !.tokenSecretKeyRef = IssuedRef(Req)]
        /\ Goto("GetWorkspaceConfigMap")

\* after a successful write of the credential: parse the expiry annotation,
\* set requeueAfter, resolve the Runner's credential reference
AfterTokenSecretWrite ==
    LET expire == ParseRFC3339(tokenSecret.annotations)
    IN  IF expire.err
        THEN Return("parse", 0) /\ UNCHANGED <<requeueAfter, runner>>
        ELSE /\ requeueAfter' = RenewalDelay(expire.t, now)
             /\ runner' = [runner EXCEPT !.tokenSecretKeyRef = IssuedRef(Req)]
             /\ Goto("GetWorkspaceConfigMap")

\* r.Create(ctx, tokenSecret) and what follows it in the branch
CreateTokenSecret ==
    /\ pc = "CreateTokenSecret"
    /\ \/ /\ SecretName(Req) \in DOMAIN secrets
          /\ trace' = Append(trace, Call("Create", "Secret", SecretName(Req), "exists"))
          /\ Return("exists", 0)
          /\ UNCHANGED <<secrets, requeueAfter, runner>>
       \/ /\ trace' = Append(trace, Call("Create", "Secret", SecretName(Req), "err"))
          /\ Return("store", 0)
          /\ UNCHANGED <<secrets, requeueAfter, runner>>
       \/ /\ SecretName(Req) \notin DOMAIN secrets
          /\ secrets' = Put(secrets, SecretName(Req), StoredSecret(tokenSecret))
          /\ trace' = trace \o <<Call("Create", "Secret", SecretName(Req), "ok"),
                                 Event("SuccessfulCreated", "Secret", SecretName(Req))>>
          /\ AfterTokenSecretWrite
    /\ UNCHANGED <<runners, configMaps, deployments, fixedVars, items, tokenSecret,
                   workspaceConfigMap, deployment, dirty, queueVars, extUsed, quiet, calm>>

\* the present branch: createTokenSecret, then the comparison
IssueForUpdate ==
    /\ pc = "IssueForUpdate"
    /\ \E resp \in TokenResponses(now) :
         LET out == createTokenSecret(cfg, runner, resp)
         IN  /\ trace' = Append(trace, TokenCall(out))
             /\ IF out.panic
                THEN Panic /\ UNCHANGED <<tokenSecret, runner>>
                ELSE IF out.err # ""
                THEN Return(out.err, 0) /\ UNCHANGED <<tokenSecret, runner>>
                ELSE IF TokenSecretDiffers(tokenSecret, out.secret)
                THEN /\ tokenSecret' = [tokenSecret EXCEPT
                                           !.annotations = out.secret.annotations,
                                           !.data = out.secret.data,
                                           !.stringData = out.secret.stringData]
                     /\ Goto("UpdateTokenSecret")
                     /\ UNCHANGED runner
                ELSE /\ runner' = [runner EXCEPT !.tokenSecretKeyRef = IssuedRef(Req)]
                     /\ Goto("GetWorkspaceConfigMap")
                     /\ UNCHANGED tokenSecret
    /\ UNCHANGED <<storeVars, fixedVars, items, workspaceConfigMap, deployment,
                   requeueAfter, dirty, queueVars, extUsed, quiet, calm>>

\* r.Update(ctx, &tokenSecret) and what follows it in the branch
UpdateTokenSecret ==
    /\ pc = "UpdateTokenSecret"
    /\ \/ /\ SecretName(Req) \notin DOMAIN secrets
          /\ trace' = Append(trace, Call("Update", "Secret", SecretName(Req), "notfound"))
          /\ Return("notfound", 0)
          /\ UNCHANGED <<secrets, requeueAfter, runner>>
       \/ /\ SecretName(Req) \in DOMAIN secrets
          /\ "Secret" \in dirty
          /\ trace' = Append(trace, Call("Update", "Secret", SecretName(Req), "conflict"))
          /\ Return("conflict", 0)
          /\ UNCHANGED <<secrets, requeueAfter, runner>>
       \/ /\ trace' = Append(trace, Call("Update", "Secret", SecretName(Req), "err"))
          /\ Return("store", 0)
          /\ UNCHANGED <<secrets, requeueAfter, runner>>
       \/ /\ SecretName(Req) \in DOMAIN secrets
          /\ "Secret" \notin dirty
          /\ secrets' = Put(secrets, SecretName(Req), StoredSecret(tokenSecret))
          /\ trace' = trace \o <<Call("Update", "Secret", SecretName(Req), "ok"),
                                 Event("SuccessfulUpdated", "Secret", SecretName(Req))>>
          /\ AfterTokenSecretWrite
    /\ UNCHANGED <<runners, configMaps, deployments, fixedVars, items, tokenSecret,
                   workspaceConfigMap, deployment, dirty, queueVars, extUsed, quiet, calm>>

\* r.Client.Get of <name>-workspace, then the build and the comparison
GetWorkspaceConfigMap ==
    /\ pc = "GetWorkspaceConfigMap"
    /\ \/ /\ WorkspaceName(Req) \notin DOMAIN configMaps
          /\ trace' = Append(trace, Call("Get", "ConfigMap", WorkspaceName(Req), "notfound"))
          /\ workspaceConfigMap' =
                SetControllerReference(runner, buildWorkspaceConfigMap(cfg, runner))
          /\ Goto("CreateWorkspaceConfigMap")
          /\ UNCHANGED dirty
       \/ /\ trace' = Append(trace, Call("Get", "ConfigMap", WorkspaceName(Req), "err"))
          /\ Return("store", 0)
          /\ UNCHANGED <<workspaceConfigMap, dirty>>
       \/ /\ WorkspaceName(Req) \in DOMAIN configMaps
          /\ trace' = Append(trace, Call("Get", "ConfigMap", WorkspaceName(Req), "ok"))
          /\ dirty' = dirty \ {"ConfigMap"}
          /\ LET observed == configMaps[WorkspaceName(Req)]
                 expected == buildWorkspaceConfigMap(cfg, runner)
             IN  IF WorkspaceDiffers(observed, expected)
                 THEN /\ workspaceConfigMap' = [observed EXCEPT
                                                   !.data = expected.data,
                                                   !.binaryData = expected.binaryData]
                      /\ Goto("UpdateWorkspaceConfigMap")
                 ELSE /\ workspaceConfigMap' = observed
                      /\ Goto("GetDeployment")
    /\ UNCHANGED <<storeVars, fixedVars, runner, items, tokenSecret, deployment,
                   requeueAfter, queueVars, extUsed, quiet, calm>>

CreateWorkspaceConfigMap ==
    /\ pc = "CreateWorkspaceConfigMap"
    /\ \/ /\ WorkspaceName(Req) \in DOMAIN configMaps
          /\ trace' = Append(trace, Call("Create", "ConfigMap", WorkspaceName(Req), "exists"))
          /\ Return("exists", 0)
          /\ UNCHANGED configMaps
       \/ /\ trace' = Append(trace, Call("Create", "ConfigMap", WorkspaceName(Req), "err"))
          /\ Return("store", 0)
          /\ UNCHANGED configMaps
       \/ /\ WorkspaceName(Req) \notin DOMAIN configMaps
          /\ configMaps' = Put(configMaps, WorkspaceName(Req), workspaceConfigMap)
          /\ trace' = trace \o <<Call("Create", "ConfigMap", WorkspaceName(Req), "ok"),
                                 Event("SuccessfulCreated", "ConfigMap", WorkspaceName(Req))>>
          /\ Goto("GetDeployment")
    /\ UNCHANGED <<runners, secrets, deployments, fixedVars, localVars, dirty, queueVars,
                   extUsed, quiet, calm>>

UpdateWorkspaceConfigMap ==
    /\ pc = "UpdateWorkspaceConfigMap"
    /\ \/ /\ WorkspaceName(Req) \notin DOMAIN configMaps
          /\ trace' = Append(trace, Call("Update", "ConfigMap", WorkspaceName(Req), "notfound"))
          /\ Return("notfound", 0)
          /\ UNCHANGED configMaps
       \/ /\ WorkspaceName(Req) \in DOMAIN configMaps
          /\ "ConfigMap" \in dirty
          /\ trace' = Append(trace, Call("Update", "ConfigMap", WorkspaceName(Req), "conflict"))
          /\ Return("conflict", 0)
          /\ UNCHANGED configMaps
       \/ /\ trace' = Append(trace, Call("Update", "ConfigMap", WorkspaceName(Req), "err"))
          /\ Return("store", 0)
          /\ UNCHANGED configMaps
       \/ /\ WorkspaceName(Req) \in DOMAIN configMaps
          /\ "ConfigMap" \notin dirty
          /\ configMaps' = Put(configMaps, WorkspaceName(Req), workspaceConfigMap)
          /\ trace' = trace \o <<Call("Update", "ConfigMap", WorkspaceName(Req), "ok"),
                                 Event("SuccessfulUpdated", "ConfigMap", WorkspaceName(Req))>>
          /\ Goto("GetDeployment")
    /\ UNCHANGED <<runners, secrets, deployments, fixedVars, localVars, dirty, queueVars,
                   extUsed, quiet, calm>>

\* what Reconcile returns when the workload's Update is refused as stale
ConflictResult == [err |-> "", requeueAfter |-> Second]

\* what Reconcile returns at its end
FinalResult(d) == [err |-> "", requeueAfter |-> d]

\* r.Client.Get of <name>-runner, then the build and the comparison
GetDeployment ==
    /\ pc = "GetDeployment"
    /\ \/ /\ DeploymentName(Req) \notin DOMAIN deployments
          /\ trace' = Append(trace, Call("Get", "Deployment", DeploymentName(Req), "notfound"))
          /\ deployment' = SetControllerReference(runner, buildDeployment(cfg, runner))
          /\ runner' = RunnerAfterDeployment(runner)
          /\ Goto("CreateDeployment")
          /\ UNCHANGED dirty
       \/ /\ trace' = Append(trace, Call("Get", "Deployment", DeploymentName(Req), "err"))
          /\ Return("store", 0)
          /\ UNCHANGED <<deployment, runner, dirty>>
       \/ /\ DeploymentName(Req) \in DOMAIN deployments
          /\ trace' = Append(trace, Call("Get", "Deployment", DeploymentName(Req), "ok"))
          /\ dirty' = dirty \ {"Deployment"}
          /\ runner' = RunnerAfterDeployment(runner)
          /\ LET observed == deployments[DeploymentName(Req)]
                 expected == buildDeployment(cfg, runner)
             IN  IF DeploymentDiffers(observed, expected)
                 THEN /\ deployment' = [observed EXCEPT !.template = expected.template]
                      /\ Goto("UpdateDeployment")
                 ELSE /\ deployment' = observed
                      /\ Return(FinalResult(requeueAfter).err,
                                FinalResult(requeueAfter).requeueAfter)
    /\ UNCHANGED <<storeVars, fixedVars, items, tokenSecret, workspaceConfigMap,
                   requeueAfter, queueVars, extUsed, quiet, calm>>

CreateDeployment ==
    /\ pc = "CreateDeployment"
    /\ \/ /\ DeploymentName(Req) \in DOMAIN deployments
          /\ trace' = Append(trace, Call("Create", "Deployment", DeploymentName(Req), "exists"))
          /\ Return("exists", 0)
          /\ UNCHANGED deployments
       \/ /\ trace' = Append(trace, Call("Create", "Deployment", DeploymentName(Req), "err"))
          /\ Return("store", 0)
          /\ UNCHANGED deployments
       \/ /\ DeploymentName(Req) \notin DOMAIN deployments
          /\ deployments' = Put(deployments, DeploymentName(Req), deployment)
          /\ trace' = trace \o <<Call("Create", "Deployment", DeploymentName(Req), "ok"),
                                 Event("SuccessfulCreated", "Deployment", DeploymentName(Req))>>
          /\ Return(FinalResult(requeueAfter).err, FinalResult(requeueAfter).requeueAfter)
    /\ UNCHANGED <<runners, secrets, configMaps, fixedVars, localVars, dirty, queueVars,
                   extUsed, quiet, calm>>

UpdateDeployment ==
    /\ pc = "UpdateDeployment"
    /\ \/ /\ DeploymentName(Req) \notin DOMAIN deployments
          /\ trace' = Append(trace, Call("Update", "Deployment", DeploymentName(Req), "notfound"))
          /\ Return("notfound", 0)
          /\ UNCHANGED deployments
       \/ /\ DeploymentName(Req) \in DOMAIN deployments
          /\ "Deployment" \in dirty
          /\ trace' = Append(trace, Call("Update", "Deployment", DeploymentName(Req), "conflict"))
          /\ Return(ConflictResult.err, ConflictResult.requeueAfter)
          /\ UNCHANGED deployments
       \/ /\ trace' = Append(trace, Call("Update", "Deployment", DeploymentName(Req), "err"))
          /\ Return("store", 0)
          /\ UNCHANGED deployments
       \/ /\ DeploymentName(Req) \in DOMAIN deployments
          /\ "Deployment" \notin dirty
          /\ deployments' = Put(deployments, DeploymentName(Req), deployment)
          /\ trace' = trace \o <<Call("Update", "Deployment", DeploymentName(Req), "ok"),
                                 Event("SuccessfulUpdated", "Deployment", DeploymentName(Req))>>
          /\ Return(FinalResult(requeueAfter).err, FinalResult(requeueAfter).requeueAfter)
    /\ UNCHANGED <<runners, secrets, configMaps, fixedVars, localVars, dirty, queueVars,
                   extUsed, quiet, calm>>

(***************************************************************************)
(* The work queue around Reconcile (the controller built in                *)
(* SetupWithManager).                                                      *)
(***************************************************************************)
Earlier(t1, t2) == IF t1 = NoTimer THEN t2 ELSE IF t1 < t2 THEN t1 ELSE t2

\* what the queue does with a result: an error is retried, a positive
\* RequeueAfter is scheduled, anything else is forgotten
HandleResult ==
    /\ pc = "done"
    /\ pc' = "idle"
    /\ queued' = (queued \/ result.err # "")
    /\ timer' = IF result.err = "" /\ result.requeueAfter > 0
                THEN Earlier(timer, now + result.requeueAfter)
                ELSE timer
    /\ runner' = NoRunner
    /\ items' = <<>>
    /\ tokenSecret' = NoSecret
    /\ workspaceConfigMap' = NoConfigMap
    /\ deployment' = NoDeployment
    /\ requeueAfter' = 0
    /\ result' = NoResult
    /\ trace' = <<>>
    /\ dirty' = {}
    /\ UNCHANGED <<storeVars, fixedVars, now, other, extUsed, prevOk, quiet, calm>>

\* after a panic the process starts again: the queue is rebuilt from the store
Recover ==
    /\ pc = "panic"
    /\ pc' = "idle"
    /\ queued' = TRUE
    /\ timer' = NoTimer
    /\ runner' = NoRunner
    /\ items' = <<>>
    /\ tokenSecret' = NoSecret
    /\ workspaceConfigMap' = NoConfigMap
    /\ deployment' = NoDeployment
    /\ requeueAfter' = 0
    /\ result' = NoResult
    /\ trace' = <<>>
    /\ dirty' = {}
    /\ UNCHANGED <<storeVars, fixedVars, now, other, extUsed, prevOk, quiet, calm>>

\* a change notification that comes with no change of the store (a restart's
\* initial list, a watch that reconnects)
Notify ==
    /\ pc = "idle"
    /\ ~queued
    /\ queued' = TRUE
    /\ UNCHANGED <<storeVars, fixedVars, pc, localVars, result, trace, dirty, timer, now,
                   other, extUsed, prevOk, quiet, calm>>

\* time passes while the queue has nothing ready, until the delayed item is due
Tick ==
    /\ pc = "idle"
    /\ ~queued
    /\ timer # NoTimer
    /\ timer > now
    /\ timer <= MaxTime
    /\ now' = timer
    /\ UNCHANGED <<storeVars, fixedVars, pc, localVars, result, trace, dirty, queued,
                   timer, other, extUsed, prevOk, quiet, calm>>

\* a change notification for the other Runner arrives (an event of the
\* ConfigMap that names it as its owner) and a free worker takes its key
StartOther ==
    /\ other = "idle"
    /\ pc # "panic"
    /\ Busy < Options.MaxConcurrentReconciles
    /\ other' = "GetRunner"
    /\ UNCHANGED <<storeVars, fixedVars, pc, localVars, result, trace, dirty, queued,
                   timer, now, extUsed, prevOk, quiet, calm>>

\* Reconcile for the other Runner: it is not in the store, so the Get finds
\* nothing (or fails) and the pass is over
GetRunnerOther ==
    /\ other = "GetRunner"
    /\ Other \notin DOMAIN runners
    /\ other' = "idle"
    /\ UNCHANGED <<storeVars, fixedVars, pc, localVars, result, trace, dirty, queued,
                   timer, now, extUsed, prevOk, quiet, calm>>

(***************************************************************************)
(* Other actors writing to the store.  A write of another actor is placed  *)
(* where its order with the pass's own steps on the same object matters:   *)
(* between two passes, between the pass's read of an object and its write  *)
(* of it, and between a List of the garbage collector and its Delete.      *)
(* Anywhere else in a pass it commutes with the pass's steps and gives the *)
(* states the same write gives between two passes.                         *)
(***************************************************************************)
\* the pass holds an object of this kind that it read and has yet to write
InWindow(kind) ==
    \/ kind = "Secret" /\ pc \in {"CreateTokenSecret", "UpdateTokenSecret"}
    \/ kind = "ConfigMap" /\ pc \in {"CreateWorkspaceConfigMap", "UpdateWorkspaceConfigMap"}
    \/ kind = "Deployment" /\ pc \in {"CreateDeployment", "UpdateDeployment"}

\* the garbage collector has listed this name and has yet to delete it
InDeleteWindow(kind) ==
    /\ items # <<>>
    /\ \/ kind = "ConfigMap" /\ pc = "DeleteConfigMaps"
       \/ kind = "Deployment" /\ pc = "DeleteDeployments"

\* what every write of another actor does besides the write; notify: the
\* write is one the controller's watches pass on as a request for Req
External(kind, notify) ==
    /\ extUsed < MaxExt
    /\ extUsed' = extUsed + 1
    /\ prevOk' = FALSE
    /\ calm' = FALSE
    /\ dirty' = IF InWindow(kind) THEN dirty \cup {kind} ELSE dirty
    /\ queued' = (queued \/ notify)
    /\ UNCHANGED <<fixedVars, pc, localVars, result, trace, timer, now, other, quiet>>

\* Owns(...): the owner a watched child's event is mapped to
NotifiesReq(obj) == obj.owner = RunnerOwner(Req)

OldName == "r-old"

ExtUpdateRunner ==
    /\ pc = "idle"
    /\ Req \in DOMAIN runners
    /\ runners' = [runners EXCEPT ![Req].image =
                      IF @ = Image1 THEN Image2 ELSE Image1]
    /\ External("Runner", TRUE)
    /\ UNCHANGED <<secrets, configMaps, deployments>>

ExtDeleteRunner ==
    /\ pc = "idle"
    /\ Req \in DOMAIN runners
    /\ runners' = Remove(runners, Req)
    /\ External("Runner", TRUE)
    /\ UNCHANGED <<secrets, configMaps, deployments>>

\* a child the Runner owns under a name Reconcile does not use
ExtCreateOwned ==
    /\ pc = "idle"
    /\ \/ /\ OldName \notin DOMAIN secrets
          /\ secrets' = Put(secrets, OldName,
                            [NoSecret EXCEPT !.owner = RunnerOwner(Req), !.data = "old"])
          /\ External("Secret", FALSE)
          /\ UNCHANGED <<configMaps, deployments>>
       \/ /\ OldName \notin DOMAIN configMaps
          /\ configMaps' = Put(configMaps, OldName,
                               [NoConfigMap EXCEPT !.owner = RunnerOwner(Req)])
          /\ External("ConfigMap", TRUE)
          /\ UNCHANGED <<secrets, deployments>>
       \/ /\ OldName \notin DOMAIN deployments
          /\ deployments' = Put(deployments, OldName,
                                [NoDeployment EXCEPT !.owner = RunnerOwner(Req)])
          /\ External("Deployment", TRUE)
          /\ UNCHANGED <<secrets, configMaps>>
    /\ UNCHANGED runners

\* an object nobody owns under a name Reconcile uses
ExtCreateForeign ==
    /\ \/ /\ pc = "idle" \/ InWindow("Secret")
          /\ SecretName(Req) \notin DOMAIN secrets
          /\ secrets' = Put(secrets, SecretName(Req), [NoSecret EXCEPT !.data = "foreign"])
          /\ External("Secret", FALSE)
          /\ UNCHANGED <<configMaps, deployments>>
       \/ /\ pc = "idle" \/ InWindow("ConfigMap")
          /\ WorkspaceName(Req) \notin DOMAIN configMaps
          /\ configMaps' = Put(configMaps, WorkspaceName(Req),
                               [NoConfigMap EXCEPT !.data = <<"foreign">>])
          /\ External("ConfigMap", FALSE)
          /\ UNCHANGED <<secrets, deployments>>
       \/ /\ pc = "idle" \/ InWindow("Deployment")
          /\ DeploymentName(Req) \notin DOMAIN deployments
          /\ deployments' = Put(deployments, DeploymentName(Req),
                                [NoDeployment EXCEPT !.replicas = 2])
          /\ External("Deployment", FALSE)
          /\ UNCHANGED <<secrets, configMaps>>
    /\ UNCHANGED runners

\* an edit of an object Reconcile manages
ExtModify ==
    /\ \/ /\ pc = "idle" \/ InWindow("Secret")
          /\ SecretName(Req) \in DOMAIN secrets
          /\ secrets' = [secrets EXCEPT ![SecretName(Req)].data = "edited"]
          /\ External("Secret", FALSE)
          /\ UNCHANGED <<configMaps, deployments>>
       \/ /\ pc = "idle" \/ InWindow("ConfigMap")
          /\ WorkspaceName(Req) \in DOMAIN configMaps
          /\ configMaps' = [configMaps EXCEPT ![WorkspaceName(Req)].data = <<"edited">>]
          /\ External("ConfigMap", FALSE)
          /\ UNCHANGED <<secrets, deployments>>
       \/ /\ pc = "idle" \/ InWindow("Deployment")
          /\ DeploymentName(Req) \in DOMAIN deployments
          /\ deployments' = [deployments EXCEPT ![DeploymentName(Req)].replicas = 3]
          /\ External("Deployment", NotifiesReq(deployments[DeploymentName(Req)]))
          /\ UNCHANGED <<secrets, configMaps>>
       \/ /\ pc = "idle" \/ InWindow("Deployment")
          /\ DeploymentName(Req) \in DOMAIN deployments
          /\ deployments' = [deployments EXCEPT
                                ![DeploymentName(Req)].template = [edited |-> TRUE]]
          /\ External("Deployment", NotifiesReq(deployments[DeploymentName(Req)]))
          /\ UNCHANGED <<secrets, configMaps>>
    /\ UNCHANGED runners

ExtDelete ==
    /\ \/ /\ pc = "idle" \/ InWindow("Secret")
          /\ SecretName(Req) \in DOMAIN secrets
          /\ secrets' = Remove(secrets, SecretName(Req))
          /\ External("Secret", FALSE)
          /\ UNCHANGED <<configMaps, deployments>>
       \/ /\ pc = "idle" \/ InWindow("ConfigMap")
          /\ WorkspaceName(Req) \in DOMAIN configMaps
          /\ configMaps' = Remove(configMaps, WorkspaceName(Req))
          /\ External("ConfigMap", NotifiesReq(configMaps[WorkspaceName(Req)]))
          /\ UNCHANGED <<secrets, deployments>>
       \/ /\ pc = "idle" \/ InWindow("Deployment")
          /\ DeploymentName(Req) \in DOMAIN deployments
          /\ deployments' = Remove(deployments, DeploymentName(Req))
          /\ External("Deployment", NotifiesReq(deployments[DeploymentName(Req)]))
          /\ UNCHANGED <<secrets, configMaps>>
       \/ /\ InDeleteWindow("ConfigMap")
          /\ OldName \in DOMAIN configMaps
          /\ configMaps' = Remove(configMaps, OldName)
          /\ External("ConfigMap", NotifiesReq(configMaps[OldName]))
          /\ UNCHANGED <<secrets, deployments>>
       \/ /\ InDeleteWindow("Deployment")
          /\ OldName \in DOMAIN deployments
          /\ deployments' = Remove(deployments, OldName)
          /\ External("Deployment", NotifiesReq(deployments[OldName]))
          /\ UNCHANGED <<secrets, configMaps>>
    /\ UNCHANGED runners

(***************************************************************************)
(* The specification.                                                      *)
(***************************************************************************)
Next ==
    \/ Start
    \/ GetRunner
    \/ ListConfigMaps
    \/ DeleteConfigMaps
    \/ ListDeployments
    \/ DeleteDeployments
    \/ GetTokenSecret
    \/ IssueForCreate
    \/ CreateTokenSecret
    \/ IssueForUpdate
    \/ UpdateTokenSecret
    \/ GetWorkspaceConfigMap
    \/ CreateWorkspaceConfigMap
    \/ UpdateWorkspaceConfigMap
    \/ GetDeployment
    \/ CreateDeployment
    \/ UpdateDeployment
    \/ HandleResult
    \/ Recover
    \/ Notify
    \/ Tick
    \/ StartOther
    \/ GetRunnerOther
    \/ ExtUpdateRunner
    \/ ExtDeleteRunner
    \/ ExtCreateOwned
    \/ ExtCreateForeign
    \/ ExtModify
    \/ ExtDelete

Spec == Init /\ [][Next]_vars

(***************************************************************************)
(* The Reference Normalizer on its own: buildRepositoryName applied to     *)
(* image references and version strings drawn from small sets, two runs    *)
(* to a behaviour.                                                         *)
(***************************************************************************)
\* version strings: one to MaxVersionLen characters out of "1" and "2"
Versions == UNION {[1..n -> {"1", "2"}] : n \in 1..MaxVersionLen}

\* image references: a bare name with a tag, a name with a path, and one the
\* parser refuses
Images == {Image1, Image2, <<"U">>}

InitNormalizer ==
    /\ Init
    /\ cfg = Config("Iv1", "42", "pem")
    /\ runners = (Req :> RunnerSpec(<<"o", "/", "r">>, NoRef))

\* one run of buildRepositoryName under a configuration and for a Runner
Normalize ==
    /\ Len(normalized) < 2
    /\ \E image \in Images, binaryVersion \in Versions, runnerVersion \in Versions :
         LET c == [cfg EXCEPT !.binaryVersion = binaryVersion,
                              !.runnerVersion = runnerVersion]
             r == [runners[Req] EXCEPT !.image = image]
         IN  normalized' = Append(normalized,
                 [image |-> image,
                  binaryVersion |-> binaryVersion,
                  runnerVersion |-> runnerVersion,
                  id |-> buildRepositoryName(c, r)])
    /\ UNCHANGED <<storeVars, cfg, pc, localVars, result, trace, dirty, queueVars,
                   extUsed, prevOk, quiet, calm>>

NextNormalizer == Normalize

SpecNormalizer == InitNormalizer /\ [][NextNormalizer]_vars

(***************************************************************************)
(* Reading the trace of the current pass.                                  *)
(***************************************************************************)
Kinds == {"Secret", "ConfigMap", "Deployment"}

\* the pass made this call (or recorded this event) with this outcome
Did(op, kind, res) ==
    \E i \in 1..Len(trace) :
        trace[i].op = op /\ trace[i].kind = kind /\ trace[i].res = res

\* the pass issued this call, whatever came of it
Issued(op, kind) ==
    \E i \in 1..Len(trace) : trace[i].op = op /\ trace[i].kind = kind

\* the pass wrote the credential
CredentialWritten == Did("Create", "Secret", "ok") \/ Did("Update", "Secret", "ok")

\* the pass is past the garbage collector
PastCleanup ==
    \E i \in 1..Len(trace) :
        trace[i].op = "Get" /\ trace[i].kind \in {"Secret", "ConfigMap"}

\* the pass fetched the Runner, and the Runner is as fetched
Fetched == Did("Get", "Runner", "ok") /\ Req \in DOMAIN runners

\* the names of the objects whose controller owner is the Runner
ControlledBy(objs, name) == {n \in DOMAIN objs : objs[n].owner = RunnerOwner(name)}

(***************************************************************************)
(* C1.  Idempotence of Reconcile: a pass that follows a pass which         *)
(* returned no error, with no write of another actor from the beginning of *)
(* that pass on, issues no Create and no Update on the credential, the     *)
(* build-context ConfigMap or the Deployment.                              *)
(***************************************************************************)
C1_Idempotence ==
    (quiet /\ calm) =>
        \A k \in Kinds : ~Issued("Create", k) /\ ~Issued("Update", k)

(***************************************************************************)
(* C2.  Conflict resilience for every child kind: a pass in which an       *)
(* Update of the credential, of the ConfigMap or of the Deployment was     *)
(* refused as stale returns no error and a delay of one second.            *)
(***************************************************************************)
C2_ConflictResilience ==
    (pc = "done" /\ \E k \in Kinds : Did("Update", k, "conflict")) =>
        (result.err = "" /\ result.requeueAfter = Second)

(***************************************************************************)
(* C3.  Garbage collection: the garbage collector never passes the         *)
(* canonical name of a kind to Delete and never deletes a child the index  *)
(* attributes to another owner; once it is through with no error (and no   *)
(* other actor wrote during the pass), no ConfigMap and no Deployment that *)
(* the index attributes to the Runner is left under another name.          *)
(***************************************************************************)
C3_GarbageCollection ==
    /\ ~Issued("Delete", "Secret")
    /\ \A i \in 1..Len(trace) :
          trace[i].op = "Delete" =>
              /\ trace[i].kind = "ConfigMap" => trace[i].name # WorkspaceName(Req)
              /\ trace[i].kind = "Deployment" => trace[i].name # DeploymentName(Req)
    /\ "q-workspace" \in DOMAIN configMaps
    /\ "r-job" \in DOMAIN deployments
    /\ (calm /\ PastCleanup) =>
          /\ OwnedNames(configMaps, Req) \subseteq {WorkspaceName(Req)}
          /\ OwnedNames(deployments, Req) \subseteq {DeploymentName(Req)}

\* a pass that deleted a stray ConfigMap and found the canonical one in place
C3_Witness ==
    /\ pc = "done"
    /\ result.err = ""
    /\ calm
    /\ \E i \in 1..Len(trace) :
          trace[i] = Call("Delete", "ConfigMap", OldName, "ok")
    /\ \E i \in 1..Len(trace) :
          trace[i] = Call("Get", "ConfigMap", WorkspaceName(Req), "ok")
    /\ OldName \notin DOMAIN configMaps
    /\ WorkspaceName(Req) \in DOMAIN configMaps

(***************************************************************************)
(* C4.  Steady-state cardinality: after a pass that returned no error,     *)
(* with dynamic issuance configured and no other writer during the pass,   *)
(* the Runner controls exactly one Secret, one ConfigMap and one           *)
(* Deployment.                                                             *)
(***************************************************************************)
C4_SteadyStateCardinality ==
    (/\ pc = "done"
     /\ result.err = ""
     /\ calm
     /\ Fetched
     /\ DynamicIssuance(cfg, runners[Req])) =>
        /\ Cardinality(ControlledBy(secrets, Req)) = 1
        /\ Cardinality(ControlledBy(configMaps, Req)) = 1
        /\ Cardinality(ControlledBy(deployments, Req)) = 1

(***************************************************************************)
(* C5.  Renewal delay: a pass that wrote the credential and returned no    *)
(* error returns the expiry instant of the credential's annotation minus   *)
(* the current time minus one minute.                                      *)
(***************************************************************************)
\* as claimed: for every such pass
C5_RenewalDelayAlways ==
    (pc = "done" /\ result.err = "" /\ CredentialWritten) =>
        result.requeueAfter =
            ParseRFC3339(tokenSecret.annotations).t - now - Minute

\* as amended: for every such pass whose Update of the Deployment was not
\* refused as stale; 5 minutes to expiry give 4 minutes, an hour gives 59
\* minutes, 30 seconds give minus 30 seconds.  A pass whose Update of the
\* Deployment was refused as stale returns one second, whatever the expiry.
C5_RenewalDelay ==
    /\ (/\ pc = "done"
        /\ result.err = ""
        /\ CredentialWritten
        /\ Did("Update", "Deployment", "conflict")) =>
           result.requeueAfter = Second
    /\ (/\ pc = "done"
        /\ result.err = ""
        /\ CredentialWritten
        /\ ~Did("Update", "Deployment", "conflict")) =>
        /\ ~ParseRFC3339(tokenSecret.annotations).err
        /\ result.requeueAfter =
              ParseRFC3339(tokenSecret.annotations).t - now - Minute
        /\ tokenSecret.annotations = FormatRFC3339(now + 300) =>
              result.requeueAfter = 240
        /\ tokenSecret.annotations = FormatRFC3339(now + 3600) =>
              result.requeueAfter = 3540
        /\ tokenSecret.annotations = FormatRFC3339(now + 30) =>
              result.requeueAfter = -30

\* a pass that updated the credential to one that expires in 5 minutes
C5_Witness ==
    /\ pc = "done"
    /\ result.err = ""
    /\ Did("Update", "Secret", "ok")
    /\ tokenSecret.annotations = FormatRFC3339(now + 300)
    /\ secrets[SecretName(Req)].annotations = FormatRFC3339(now + 300)
    /\ result.requeueAfter = 240

(***************************************************************************)
(* C6.  Proactive renewal: with dynamic issuance configured, whenever the  *)
(* stored credential has expired or expires in less than a minute, a       *)
(* re-invocation of the Runner is pending (a pass is running, the key is   *)
(* queued or a delayed item is waiting).                                   *)
(***************************************************************************)
C6_ProactiveRenewal ==
    (/\ pc = "idle"
     /\ Req \in DOMAIN runners
     /\ DynamicIssuance(cfg, runners[Req])
     /\ SecretName(Req) \in DOMAIN secrets
     /\ ~ParseRFC3339(secrets[SecretName(Req)].annotations).err
     /\ ParseRFC3339(secrets[SecretName(Req)].annotations).t - now < Minute) =>
        (queued \/ timer # NoTimer)

(***************************************************************************)
(* C7.  Missing Runner: a pass that does not find the Runner returns no    *)
(* error and no delay, and its Get of the Runner is the only thing it did. *)
(***************************************************************************)
C7_MissingRunner ==
    Did("Get", "Runner", "notfound") =>
        /\ pc = "done"
        /\ result.err = ""
        /\ result.requeueAfter = 0
        /\ trace = <<Call("Get", "Runner", Req, "notfound")>>

\* a pass that ended on a Runner that was not there
C7_Witness ==
    /\ pc = "done"
    /\ Req \notin DOMAIN runners
    /\ Did("Get", "Runner", "notfound")

(***************************************************************************)
(* C8.  Dynamic issuance gate: the credential is read, exchanged for,      *)
(* created or updated only by a pass whose Runner has no static credential *)
(* reference under a configuration with client id, installation id and     *)
(* private key all set; any other pass requests no renewal delay; and a    *)
(* pass of the first sort that returns no error has exchanged a token and  *)
(* created or updated the credential.                                      *)
(***************************************************************************)
C8_GateOpen ==
    /\ runners[Req].tokenSecretKeyRef = NoRef
    /\ cfg.clientId # ""
    /\ cfg.installationId # ""
    /\ cfg.privateKey # ""

C8_IssuanceGate ==
    Fetched =>
        /\ ~C8_GateOpen =>
              /\ \A i \in 1..Len(trace) : trace[i].kind # "Secret"
              /\ requeueAfter = 0
              /\ pc = "done" /\ result.err = "" /\ ~Issued("Update", "Deployment")
                    => result.requeueAfter = 0
        /\ (C8_GateOpen /\ pc = "done" /\ result.err = "") =>
              /\ Did("Token", "Secret", "201")
              /\ CredentialWritten

\* a pass that ran to its end with only the installation id missing
C8_Witness ==
    /\ pc = "done"
    /\ result.err = ""
    /\ Fetched
    /\ runners[Req].tokenSecretKeyRef = NoRef
    /\ cfg.clientId # ""
    /\ cfg.installationId = ""
    /\ cfg.privateKey # ""
    /\ Did("Create", "Deployment", "ok")

(***************************************************************************)
(* C9.  Token-exchange failure: a pass in which the identity service       *)
(* answered with a status other than 201 returns an error, creates and     *)
(* updates nothing, and records a failure event on the Runner.             *)
(***************************************************************************)
C9_TokenExchangeFailure ==
    (pc = "done" /\ Did("Token", "Secret", "403")) =>
        /\ result.err # ""
        /\ \A k \in Kinds : ~Issued("Create", k) /\ ~Issued("Update", k)
        /\ \E i \in 1..Len(trace) :
              /\ trace[i].op = "Event"
              /\ trace[i].res \notin {"SuccessfulCreated", "SuccessfulUpdated",
                                      "SuccessfulDeleted"}

(***************************************************************************)
(* C10.  The result delay is the minimum over the branches: a pass that    *)
(* returns no error returns the least of the delays its branches asked for *)
(* (the credential branch's, and one second on a stale Update of the       *)
(* Deployment), and no delay if none asked.                                *)
(***************************************************************************)
C10_Requested ==
    (IF CredentialWritten THEN {requeueAfter} ELSE {})
    \cup (IF Did("Update", "Deployment", "conflict") THEN {Second} ELSE {})

C10_MinimumDelay ==
    (pc = "done" /\ result.err = "") =>
        IF C10_Requested = {}
        THEN result.requeueAfter = 0
        ELSE /\ result.requeueAfter \in C10_Requested
             /\ \A d \in C10_Requested : result.requeueAfter <= d

\* idempotence where no credential is issued: the second of two undisturbed
\* passes neither creates nor updates
StaticIdempotence ==
    (quiet /\ calm /\ Fetched /\ ~DynamicIssuance(cfg, runners[Req])) =>
        \A k \in Kinds : ~Issued("Create", k) /\ ~Issued("Update", k)

\* a refused token request ends the pass with an error and nothing written
TokenFailureIsFatal ==
    (pc = "done" /\ Did("Token", "Secret", "403")) =>
        /\ result.err # ""
        /\ \A k \in Kinds : ~Issued("Create", k) /\ ~Issued("Update", k)

(***************************************************************************)
(* C11.  Event per write: in every pass each successful Create, Update or  *)
(* Delete of a child is followed at once by one event of the matching      *)
(* reason that names that child, and every event of the pass follows such  *)
(* a write, so a write that failed or was not attempted has no event.      *)
(***************************************************************************)
C11_Reason(op) ==
    IF op = "Create" THEN "SuccessfulCreated"
    ELSE IF op = "Update" THEN "SuccessfulUpdated"
    ELSE "SuccessfulDeleted"

C11_Written(i) ==
    /\ trace[i].op \in {"Create", "Update", "Delete"}
    /\ trace[i].kind \in Kinds
    /\ trace[i].res = "ok"

C11_EventPerWrite ==
    /\ \A i \in 1..Len(trace) :
          C11_Written(i) =>
              /\ i < Len(trace)
              /\ trace[i + 1] =
                    Event(C11_Reason(trace[i].op), trace[i].kind, trace[i].name)
              /\ trace[i + 1].name = trace[i].name
    /\ \A i \in 1..Len(trace) :
          trace[i].op = "Event" => (i > 1 /\ C11_Written(i - 1))
    /\ Cardinality({i \in 1..Len(trace) : trace[i].op = "Event"})
          = Cardinality({i \in 1..Len(trace) : C11_Written(i)})

\* a pass that deleted a stray ConfigMap, updated the credential and created
\* the Deployment, and then one whose write failed
C11_Witness ==
    /\ pc = "done"
    /\ Did("Delete", "ConfigMap", "ok")
    /\ Did("Update", "Secret", "ok")
    /\ Did("Create", "Deployment", "ok")
    /\ Cardinality({i \in 1..Len(trace) : trace[i].op = "Event"}) = 3

(***************************************************************************)
(* C12.  Fail-stop without rollback: a store call of a pass that fails     *)
(* (other than a Get that finds nothing and an Update refused as stale) is *)
(* the last thing the pass does; the pass returns the error, and what it   *)
(* wrote or deleted before stays as written.                               *)
(***************************************************************************)
C12_StoreOps == {"Get", "List", "Create", "Update", "Delete"}

\* the error Reconcile returns for an outcome of a store call
C12_Error(res) == IF res = "err" THEN "store" ELSE res

\* as claimed: the only failures let through are a child's Get that finds
\* nothing and an Update refused as stale
C12_FailedAsClaimed(i) ==
    /\ trace[i].op \in C12_StoreOps
    /\ trace[i].res # "ok"
    /\ ~(trace[i].op = "Get" /\ trace[i].kind \in Kinds /\ trace[i].res = "notfound")
    /\ ~(trace[i].op = "Update" /\ trace[i].res = "conflict")

\* as amended: the Runner's own Get that finds nothing is let through too
C12_Failed(i) ==
    /\ C12_FailedAsClaimed(i)
    /\ ~(trace[i].op = "Get" /\ trace[i].kind = "Runner" /\ trace[i].res = "notfound")

\* under no other writer, what the pass wrote so far is what the store holds
C12_NoRollback ==
    calm =>
        /\ CredentialWritten =>
              /\ SecretName(Req) \in DOMAIN secrets
              /\ secrets[SecretName(Req)] = StoredSecret(tokenSecret)
        /\ (Did("Create", "ConfigMap", "ok") \/ Did("Update", "ConfigMap", "ok")) =>
              /\ WorkspaceName(Req) \in DOMAIN configMaps
              /\ configMaps[WorkspaceName(Req)] = workspaceConfigMap
        /\ \A i \in 1..Len(trace) :
              (trace[i].op = "Delete" /\ trace[i].res = "ok") =>
                  /\ trace[i].kind = "ConfigMap" => trace[i].name \notin DOMAIN configMaps
                  /\ trace[i].kind = "Deployment" => trace[i].name \notin DOMAIN deployments

C12_FailStopAsClaimed ==
    \A i \in 1..Len(trace) :
        C12_FailedAsClaimed(i) =>
            /\ i = Len(trace)
            /\ pc = "done"
            /\ result.err = C12_Error(trace[i].res)
            /\ C12_NoRollback

C12_FailStop ==
    \A i \in 1..Len(trace) :
        C12_Failed(i) =>
            /\ i = Len(trace)
            /\ pc = "done"
            /\ result.err = C12_Error(trace[i].res)
            /\ result.requeueAfter = 0
            /\ C12_NoRollback

\* a pass that created the credential and then failed to create the ConfigMap
C12_Witness ==
    /\ pc = "done"
    /\ calm
    /\ result.err = "store"
    /\ Did("Create", "Secret", "ok")
    /\ trace[Len(trace)] = Call("Create", "ConfigMap", WorkspaceName(Req), "err")
    /\ secrets[SecretName(Req)] = StoredSecret(tokenSecret)
    /\ WorkspaceName(Req) \notin DOMAIN configMaps

(***************************************************************************)
(* C13.  Global serialization: at most one reconcile pass is in progress   *)
(* at any instant, whether for the same Runner or for two Runners.         *)
(***************************************************************************)
C13_GlobalSerialization ==
    /\ Busy <= 1
    /\ other = "GetRunner" => pc = "idle"
    /\ pc # "idle" => other = "idle"

\* the other Runner's pass is in progress while this Runner's key waits in
\* the queue
C13_Witness ==
    /\ other = "GetRunner"
    /\ pc = "idle"
    /\ queued
    /\ Busy = Options.MaxConcurrentReconciles

(***************************************************************************)
(* C14.  No management of unowned resources: the object a pass hands to a  *)
(* successful Update has the Runner as its controller owner, and so has    *)
(* every object the pass deletes; a Secret, ConfigMap or Deployment of the *)
(* canonical name that the Runner does not own is left as it is.           *)
(***************************************************************************)
C14_NoUnownedManaged ==
    /\ Did("Update", "Secret", "ok") => tokenSecret.owner = RunnerOwner(Req)
    /\ Did("Update", "ConfigMap", "ok") => workspaceConfigMap.owner = RunnerOwner(Req)
    /\ Did("Update", "Deployment", "ok") => deployment.owner = RunnerOwner(Req)

\* the part that holds: what the garbage collector is about to delete is an
\* object the index attributes to the Runner, unless another actor replaced it
C14_DeletesOwned ==
    (calm /\ pc \in {"DeleteConfigMaps", "DeleteDeployments"}) =>
        \A i \in 1..Len(items) :
            IF pc = "DeleteConfigMaps"
            THEN items[i] \in OwnedNames(configMaps, Req)
            ELSE items[i] \in OwnedNames(deployments, Req)

(***************************************************************************)
(* C15.  Reference Normalizer version sensitivity: two runs on the same    *)
(* image reference whose (controller version, runner version) pairs differ *)
(* in a component give different identifiers, and two runs on equal        *)
(* triples give equal identifiers.                                         *)
(***************************************************************************)
C15_SameInputs(a, b) ==
    /\ a.image = b.image
    /\ a.binaryVersion = b.binaryVersion
    /\ a.runnerVersion = b.runnerVersion

C15_VersionSensitivity ==
    Len(normalized) = 2 =>
        /\ C15_SameInputs(normalized[1], normalized[2]) =>
              normalized[1].id = normalized[2].id
        /\ (/\ normalized[1].image = normalized[2].image
            /\ ~C15_SameInputs(normalized[1], normalized[2])) =>
              normalized[1].id # normalized[2].id

\* the part that holds: equal triples give equal identifiers, and a change
\* of one version alone changes the identifier
C15_Determinism ==
    Len(normalized) = 2 =>
        /\ C15_SameInputs(normalized[1], normalized[2]) =>
              normalized[1].id = normalized[2].id
        /\ (/\ normalized[1].image = normalized[2].image
            /\ normalized[1].binaryVersion = normalized[2].binaryVersion
            /\ normalized[1].runnerVersion # normalized[2].runnerVersion) =>
              normalized[1].id # normalized[2].id
        /\ (/\ normalized[1].image = normalized[2].image
            /\ normalized[1].binaryVersion # normalized[2].binaryVersion
            /\ normalized[1].runnerVersion = normalized[2].runnerVersion) =>
              normalized[1].id # normalized[2].id

(***************************************************************************)
(* C16.  Garbage collection precedes application: in a pass that fetched   *)
(* the Runner, every List and Delete of the garbage collector comes before *)
(* the first token exchange, Get, Create or Update of a child; the         *)
(* collector runs whatever the credential configuration; and a pass whose  *)
(* collector failed creates and updates nothing.                           *)
(***************************************************************************)
C16_Collects(i) == trace[i].op \in {"List", "Delete"}

C16_Applies(i) ==
    \/ trace[i].op \in {"Token", "Create", "Update"}
    \/ trace[i].op = "Get" /\ trace[i].kind \in Kinds

C16_CleanupFirst ==
    /\ \A i, j \in 1..Len(trace) :
          (i < j /\ C16_Applies(i)) => ~C16_Collects(j)
    /\ (\E i \in 1..Len(trace) : C16_Applies(i)) =>
          /\ trace[1] = Call("Get", "Runner", Req, "ok")
          /\ trace[2] = Call("List", "ConfigMap", Req, "ok")
          /\ Did("List", "Deployment", "ok")
          /\ \A i \in 1..Len(trace) : C16_Collects(i) => trace[i].res = "ok"
    /\ (\E i \in 1..Len(trace) : C16_Collects(i) /\ trace[i].res # "ok") =>
          /\ pc = "done"
          /\ result.err # ""
          /\ \A i \in 1..Len(trace) : ~C16_Applies(i)
    /\ (pc = "done" /\ Did("Get", "Runner", "ok")) => Issued("List", "ConfigMap")

\* a pass under a configuration without private key that deleted a stray
\* ConfigMap and then created the canonical one
C16_Witness ==
    /\ pc = "done"
    /\ result.err = ""
    /\ cfg.privateKey = ""
    /\ Did("Delete", "ConfigMap", "ok")
    /\ Did("Create", "ConfigMap", "ok")
    /\ \E i, j \in 1..Len(trace) :
          /\ i < j
          /\ trace[i].op = "Delete"
          /\ trace[j].op = "Create"

(***************************************************************************)
(* C17.  Apply order and dependency of the workload: the steps of a pass   *)
(* come in the order credential, ConfigMap, Deployment; a Deployment is    *)
(* written only after the ConfigMap step and (under dynamic issuance) the  *)
(* credential step of the same pass went through, so with no other writer  *)
(* the Secret its main container references and the ConfigMap its volume   *)
(* mounts are in the store when it is written; and every child the pass    *)
(* creates has the Runner as its controller owner.                         *)
(***************************************************************************)
C17_Rank(kind) ==
    IF kind = "Secret" THEN 1 ELSE IF kind = "ConfigMap" THEN 2 ELSE 3

C17_ApplyOrder ==
    /\ \A i, j \in 1..Len(trace) :
          (i < j /\ C16_Applies(i) /\ C16_Applies(j)) =>
              C17_Rank(trace[i].kind) <= C17_Rank(trace[j].kind)
    /\ (Issued("Create", "Deployment") \/ Issued("Update", "Deployment")) =>
          /\ \/ Did("Get", "ConfigMap", "ok") /\ ~Issued("Update", "ConfigMap")
             \/ Did("Create", "ConfigMap", "ok")
             \/ Did("Update", "ConfigMap", "ok")
          /\ Issued("Get", "Secret") =>
                /\ Did("Token", "Secret", "201")
                /\ CredentialWritten
                /\ runner.tokenSecretKeyRef = IssuedRef(Req)
          /\ deployment.template # NoDeployment.template =>
                deployment.template.containers[1].token = runner.tokenSecretKeyRef
    /\ (calm /\ (Did("Create", "Deployment", "ok") \/ Did("Update", "Deployment", "ok"))) =>
          /\ WorkspaceName(Req) \in DOMAIN configMaps
          /\ deployments[DeploymentName(Req)].template.workspaceVolume = WorkspaceName(Req)
          /\ Issued("Get", "Secret") =>
                /\ SecretName(Req) \in DOMAIN secrets
                /\ deployments[DeploymentName(Req)].template.containers[1].token
                      = [name |-> SecretName(Req), key |-> "GITHUB_TOKEN"]
    /\ calm =>
          /\ Did("Create", "Secret", "ok") =>
                secrets[SecretName(Req)].owner = RunnerOwner(Req)
          /\ Did("Create", "ConfigMap", "ok") =>
                configMaps[WorkspaceName(Req)].owner = RunnerOwner(Req)
          /\ Did("Create", "Deployment", "ok") =>
                deployments[DeploymentName(Req)].owner = RunnerOwner(Req)

\* a pass that created the credential, the ConfigMap and the Deployment
C17_Witness ==
    /\ pc = "done"
    /\ result.err = ""
    /\ calm
    /\ Did("Create", "Secret", "ok")
    /\ Did("Create", "ConfigMap", "ok")
    /\ Did("Create", "Deployment", "ok")
    /\ deployments[DeploymentName(Req)].template.containers[1].token = IssuedRef(Req)
    /\ deployments[DeploymentName(Req)].owner = RunnerOwner(Req)

(***************************************************************************)
(* C18.  Credential drift detection covers annotations: a credential that  *)
(* is present is updated exactly if its token material or its annotations  *)
(* differ from the freshly computed one; one that matches on both is not   *)
(* updated.                                                                *)
(***************************************************************************)
\* the pass is about to update the credential it read, which nobody touched
C18_AboutToUpdate ==
    /\ pc = "UpdateTokenSecret"
    /\ "Secret" \notin dirty
    /\ SecretName(Req) \in DOMAIN secrets

C18_DriftDetection ==
    C18_AboutToUpdate =>
        \/ secrets[SecretName(Req)].data # tokenSecret.stringData
        \/ secrets[SecretName(Req)].annotations # tokenSecret.annotations

(***************************************************************************)
(* C19.  Workload update frame: a Deployment that is present is updated    *)
(* exactly if its pod template differs from the computed one, and the      *)
(* object handed to Update is the observed one with the pod template       *)
(* replaced: owner, selector, replica count and strategy go back as they   *)
(* were read, whatever the builder would have chosen.                      *)
(***************************************************************************)
C19_UpdateFrame ==
    /\ (/\ pc = "UpdateDeployment"
        /\ "Deployment" \notin dirty
        /\ DeploymentName(Req) \in DOMAIN deployments) =>
          LET observed == deployments[DeploymentName(Req)]
          IN  /\ observed.template # PodTemplate(cfg, runner)
              /\ deployment.template = PodTemplate(cfg, runner)
              /\ deployment.owner = observed.owner
              /\ deployment.selector = observed.selector
              /\ deployment.replicas = observed.replicas
              /\ deployment.strategy = observed.strategy
    /\ (calm /\ Did("Update", "Deployment", "ok")) =>
          deployments[DeploymentName(Req)] = deployment
    /\ (/\ pc = "done"
        /\ calm
        /\ Did("Get", "Deployment", "ok")
        /\ ~Issued("Update", "Deployment")) =>
          /\ result.err = ""
          /\ deployments[DeploymentName(Req)].template = PodTemplate(cfg, runner)

\* a pass that updated a Deployment whose replica count, strategy, selector
\* and owner are not the builder's: they are in the store as they were
C19_Witness ==
    /\ pc = "done"
    /\ calm
    /\ Did("Update", "Deployment", "ok")
    /\ deployments[DeploymentName(Req)].template = PodTemplate(cfg, runner)
    /\ deployments[DeploymentName(Req)].replicas # DesiredReplicas
    /\ deployments[DeploymentName(Req)].strategy # DesiredStrategy
    /\ deployments[DeploymentName(Req)].selector # DeploymentName(Req)
    /\ deployments[DeploymentName(Req)].owner = NoOwner

(***************************************************************************)
(* C20.  Runner declaration is read-only: during a pass the Runner in      *)
(* memory differs from the Runner in the store in nothing but the resolved *)
(* credential reference, and the pass never creates, updates or deletes    *)
(* the Runner in the store.                                                *)
(***************************************************************************)
\* the pass holds the Runner it fetched
C20_Holding ==
    /\ pc \notin {"idle", "GetRunner"}
    /\ Did("Get", "Runner", "ok")
    /\ Req \in DOMAIN runners

\* the part that holds: no write of the Runner, and the credential reference
\* is resolved under dynamic issuance only
C20_RunnerNotWritten ==
    /\ \A i \in 1..Len(trace) :
          trace[i].kind = "Runner" => trace[i].op = "Get"
    /\ C20_Holding =>
          /\ runner.name = runners[Req].name
          /\ runner.image = runners[Req].image
          /\ runner.repository = runners[Req].repository
          /\ runner.tokenSecretKeyRef # runners[Req].tokenSecretKeyRef =>
                /\ DynamicIssuance(cfg, runners[Req])
                /\ runner.tokenSecretKeyRef = IssuedRef(Req)

C20_RunnerReadOnly ==
    /\ C20_RunnerNotWritten
    /\ C20_Holding =>
          runner = [runners[Req] EXCEPT !.tokenSecretKeyRef = runner.tokenSecretKeyRef]

(***************************************************************************)
(* C21.  Unparsable expiry is fatal: a pass that created or updated the    *)
(* credential with an expiry annotation that does not parse as RFC3339     *)
(* returns the parse error with no delay, the write of the credential and  *)
(* its event are the last things it did, and it neither creates nor        *)
(* updates the build-context ConfigMap or the Deployment.                  *)
(***************************************************************************)
C21_UnparsableExpiryFatal ==
    (CredentialWritten /\ ParseRFC3339(tokenSecret.annotations).err) =>
        /\ pc = "done"
        /\ result.err = "parse"
        /\ result.requeueAfter = 0
        /\ trace[Len(trace)].op = "Event"
        /\ trace[Len(trace)].kind = "Secret"
        /\ \A k \in {"ConfigMap", "Deployment"} :
              /\ ~Issued("Create", k)
              /\ ~Issued("Update", k)
              /\ ~Issued("Get", k)

\* a pass that updated the credential with the unparsable expiry the
\* identity service answered
C21_Witness ==
    /\ pc = "done"
    /\ Did("Update", "Secret", "ok")
    /\ tokenSecret.annotations = Unparsable
    /\ SecretName(Req) \in DOMAIN secrets
    /\ secrets[SecretName(Req)].annotations = Unparsable
    /\ result.err = "parse"

(***************************************************************************)
(* C22.  Total outcome of the credential step: a pass that runs the token  *)
(* request under dynamic issuance with a private key that signs never      *)
(* aborts; whatever the Runner's repository field holds, it goes on or     *)
(* returns a result or an error.                                           *)
(***************************************************************************)
\* the pass ran createTokenSecret and the key signed
C22_CredentialStep ==
    /\ Issued("Token", "Secret")
    /\ signJwt(cfg.privateKey, cfg.clientId).err = ""

\* the part that holds: with a separator in the repository field the step
\* never aborts
C22_SeparatedNeverAborts ==
    (C22_CredentialStep /\ Contains(runner.repository, "/")) =>
        /\ pc # "panic"
        /\ ~Did("Token", "Secret", "panic")

C22_TotalOutcome ==
    C22_CredentialStep =>
        /\ pc # "panic"
        /\ ~Did("Token", "Secret", "panic")

====
